---- MODULE Spec2Model ----
(***************************************************************************)
(* A model of ext/linked_lists/linked_lists.c: a singly linked list of     *)
(* Ruby VALUEs whose nodes live in malloc'ed memory, with the mark and     *)
(* free callbacks the collector calls.                                     *)
(*                                                                         *)
(* Node memory is modelled as a heap: mem[a] is the content of the node    *)
(* at address a, allocated is the set of addresses malloc has handed out   *)
(* and free has not taken back.  A freed node keeps its bytes.  Each       *)
(* method of the class is one action; `last' records what the last call    *)
(* returned and touched, and log[l] is the history of mutating calls made  *)
(* on list l.  `frame' is the call in progress where a method is followed  *)
(* statement by statement, and `proc' tells whether the process still      *)
(* runs.                                                                   *)
(***************************************************************************)
EXTENDS Integers, Sequences, FiniteSets, TLC

(* ---------------------------- bounds ----------------------------------- *)
\* node addresses malloc can hand out
MaxNodes == 3
\* list objects the program creates
NumLists == 2
\* work done in one run: a mutating call counts 1, creating a list counts 2
MaxWork == 6

(* ---------------------------- values ----------------------------------- *)
\* the null node pointer
NULL == 0
\* the content of memory malloc has returned and nobody has written yet
Uninit == -1
\* Ruby's special constants: false is the zero word, nil is not
Qfalse == 0
Qnil == 4

Addr == 1..MaxNodes
Lists == 1..NumLists

\* heap objects are word-aligned pointers; the lists are objects 1..NumLists
ObjVal(i) == 8 * i
\* the VALUE of list l (`self' inside its methods)
SelfOf(l) == ObjVal(l)
\* the VALUEs the program stores: false, nil and an ordinary object
Values == {Qfalse, Qnil, ObjVal(NumLists + 1)}

VARIABLES
  mem,        \* mem[a] = [next, value]: the bytes of the node at address a
  allocated,  \* addresses of nodes malloc'ed and not freed
  owner,      \* owner[a]: the list whose method malloc'ed the node at a (0: never)
  head,       \* head[l]: linked_list->head of list l
  listState,  \* listState[l]: "none" (not created), "live", "freed" (dfree has run)
  log,        \* log[l]: the append/prepend/shift calls made on l, in order
  last,       \* the last call: what it returned, reported, rendered and read
  frame,      \* the call in progress, when a method is followed step by step
  proc        \* "running", or "aborted" once the process has died

vars == <<mem, allocated, owner, head, listState, log, last, frame, proc>>

\* fuel for the loops over a chain: one more than the nodes there are
Fuel == MaxNodes + 1

NoCall ==
  [op |-> "none", self |-> 0, arg |-> 0, ret |-> 0, chained |-> FALSE,
   reported |-> <<>>, visited |-> <<>>, out |-> <<>>]

\* no call is in progress
NoFrame ==
  [pc |-> "idle", op |-> "none", self |-> 0, value |-> 0, node |-> 0, k |-> 0,
   i |-> 0, s |-> "", out |-> <<>>, visited |-> <<>>]

Init ==
  /\ mem = [a \in Addr |-> [next |-> Uninit, value |-> Uninit]]
  /\ allocated = {}
  /\ owner = [a \in Addr |-> 0]
  /\ head = [l \in Lists |-> Uninit]
  /\ listState = [l \in Lists |-> "none"]
  /\ log = [l \in Lists |-> <<>>]
  /\ last = NoCall
  /\ frame = NoFrame
  /\ proc = "running"

(* ---------------------------- budget ----------------------------------- *)
RECURSIVE SumLen(_, _)
SumLen(f, S) ==
  IF S = {} THEN 0
  ELSE LET x == CHOOSE y \in S : TRUE IN Len(f[x]) + SumLen(f, S \ {x})

Work == SumLen(log, Lists) + 2 * Cardinality({l \in Lists : listState[l] # "none"})

(* ---------------------------- nodes ------------------------------------ *)
\* malloc(sizeof(linkedListNodeType)): the block at a, its bytes unwritten
Malloc(m, a) == [m EXCEPT ![a] = [next |-> Uninit, value |-> Uninit]]

\* the addresses malloc may return: any freed block, or a block never handed
\* out; the blocks never handed out are interchangeable, so the lowest stands
\* for them all
MallocMay(a) ==
  /\ a \notin allocated
  /\ owner[a] # 0 \/ \A b \in Addr : b < a => owner[b] # 0

\* new_c_node: a fresh node with no successor; value is left unset
new_c_node(m, a) == [Malloc(m, a) EXCEPT ![a].next = NULL]

\* new_c_node_value: a fresh node holding value
new_c_node_value(m, a, value) == [new_c_node(m, a) EXCEPT ![a].value = value]

\* a slip: Ruby's truth test (RTEST), which nil fails too
CTrue_rtest(v) == v # Qfalse /\ v # Qnil

\* C's truth test of a VALUE, as in if(node->value): the word is not zero
CTrue(v) == v # 0

\* the nodes a loop `while(node != NULL) node = node->next' dereferences
RECURSIVE Walk(_, _, _)
Walk(m, node, fuel) ==
  IF node = NULL \/ fuel = 0 THEN <<>>
  ELSE <<node>> \o Walk(m, m[node].next, fuel - 1)

\* whether that loop reaches NULL
RECURSIVE Terminates(_, _, _)
Terminates(m, node, fuel) ==
  IF node = NULL THEN TRUE
  ELSE IF fuel = 0 THEN FALSE
  ELSE Terminates(m, m[node].next, fuel - 1)

\* append's scan: while(node->next != NULL) node = node->next
RECURSIVE TailOf(_, _, _)
TailOf(m, node, fuel) ==
  IF m[node].next = NULL \/ fuel = 0 THEN node
  ELSE TailOf(m, m[node].next, fuel - 1)

(* ---------------------------- the collector's callbacks ---------------- *)
\* a slip: the loop ends at the first node whose value is the zero word
RECURSIVE mark_loop_stops(_, _, _)
mark_loop_stops(m, node, fuel) ==
  IF node = NULL \/ fuel = 0 \/ m[node].value = 0 THEN <<>>
  ELSE <<m[node].value>> \o mark_loop_stops(m, m[node].next, fuel - 1)

\* linked_list_mark's loop: the handles passed to rb_gc_mark, in order
RECURSIVE mark_loop(_, _, _)
mark_loop(m, node, fuel) ==
  IF node = NULL \/ fuel = 0 THEN <<>>
  ELSE (IF CTrue(m[node].value) THEN <<m[node].value>> ELSE <<>>)
       \o mark_loop(m, m[node].next, fuel - 1)

\* a slip: the loop moves linked_list->head itself along the chain
linked_list_mark_moves_head(l) ==
  /\ listState[l] = "live"
  /\ last' = [NoCall EXCEPT !.op = "mark", !.self = l,
                            !.reported = mark_loop(mem, head[l], Fuel),
                            !.visited = Walk(mem, head[l], Fuel)]
  /\ head' = [head EXCEPT ![l] = NULL]
  /\ UNCHANGED <<mem, allocated, owner, listState, log>>

\* dmark: reads the chain, writes nothing
linked_list_mark(l) ==
  /\ listState[l] = "live"
  /\ last' = [NoCall EXCEPT !.op = "mark", !.self = l,
                            !.reported = mark_loop(mem, head[l], Fuel),
                            !.visited = Walk(mem, head[l], Fuel)]
  /\ UNCHANGED <<mem, allocated, owner, head, listState, log>>

\* what free(ptr) in dfree releases: the list struct, and no node
FreedByListFree(l) == {}

\* dfree: the collector destroys list l
linked_list_free(l) ==
  /\ listState[l] = "live"
  /\ listState' = [listState EXCEPT ![l] = "freed"]
  /\ allocated' = allocated \ FreedByListFree(l)
  /\ last' = [NoCall EXCEPT !.op = "free", !.self = l]
  /\ UNCHANGED <<mem, owner, head, log>>

(* ---------------------------- the methods ------------------------------ *)
\* rb_linked_list_allocate: the next list object, empty
rb_linked_list_allocate(l) ==
  /\ listState[l] = "none"
  /\ \A k \in Lists : k < l => listState[k] # "none"
  /\ Work + 2 <= MaxWork
  /\ listState' = [listState EXCEPT ![l] = "live"]
  /\ head' = [head EXCEPT ![l] = NULL]
  /\ last' = [NoCall EXCEPT !.op = "allocate", !.self = l, !.ret = SelfOf(l)]
  /\ UNCHANGED <<mem, allocated, owner, log>>

LogEntry(op, arg, res, node) == [op |-> op, arg |-> arg, res |-> res, node |-> node]

\* a slip: append returns the value it was given
append_result_value(self, value) == value

\* what append and prepend return
append_result(self, value) == SelfOf(self)
prepend_result(self, value) == SelfOf(self)

\* a slip: no scan to the tail, the new node is linked after the head
append_link_after_head(self, value, a) ==
  IF head[self] = NULL
  THEN new_c_node_value(mem, a, value)
  ELSE [new_c_node_value(mem, a, value) EXCEPT ![head[self]].next = a]

\* the memory after append links the node at a
append_link(self, value, a) ==
  IF head[self] = NULL
  THEN new_c_node_value(mem, a, value)
  ELSE [new_c_node_value(mem, a, value)
          EXCEPT ![TailOf(mem, head[self], Fuel)].next = a]

\* a slip: head is set to the new node on both paths
append_head_always(self, a) == [head EXCEPT ![self] = a]

\* head after append
append_head(self, a) ==
  IF head[self] = NULL THEN [head EXCEPT ![self] = a] ELSE head

\* rb_linked_list_append, malloc returning a
rb_linked_list_append(self, value, a) ==
  /\ MallocMay(a)
  /\ allocated' = allocated \cup {a}
  /\ owner' = [owner EXCEPT ![a] = self]
  /\ mem' = append_link(self, value, a)
  /\ head' = append_head(self, a)
  /\ log' = [log EXCEPT ![self] =
               Append(@, LogEntry("append", value, append_result(self, value), a))]
  /\ UNCHANGED listState

\* a slip: new_node->next is never set to the old head
prepend_link_lost(self, value, a) == new_c_node_value(mem, a, value)

\* the memory after prepend links the node at a
prepend_link(self, value, a) ==
  [new_c_node_value(mem, a, value) EXCEPT ![a].next = head[self]]

\* a slip: prepend is a copy of append and links the node at the tail
rb_linked_list_prepend_at_tail(self, value, a) ==
  /\ MallocMay(a)
  /\ allocated' = allocated \cup {a}
  /\ owner' = [owner EXCEPT ![a] = self]
  /\ mem' = append_link(self, value, a)
  /\ head' = append_head(self, a)
  /\ log' = [log EXCEPT ![self] =
               Append(@, LogEntry("prepend", value, prepend_result(self, value), a))]
  /\ UNCHANGED listState

\* rb_linked_list_prepend, malloc returning a
rb_linked_list_prepend(self, value, a) ==
  /\ MallocMay(a)
  /\ allocated' = allocated \cup {a}
  /\ owner' = [owner EXCEPT ![a] = self]
  /\ mem' = prepend_link(self, value, a)
  /\ head' = [head EXCEPT ![self] = a]
  /\ log' = [log EXCEPT ![self] =
               Append(@, LogEntry("prepend", value, prepend_result(self, value), a))]
  /\ UNCHANGED listState

\* a slip: the empty list answers the zero word, not nil
shift_result_zero(self) ==
  IF head[self] = NULL THEN 0 ELSE mem[head[self]].value

\* what shift returns
shift_result(self) ==
  IF head[self] = NULL THEN Qnil ELSE mem[head[self]].value

\* a slip: the removed node is never freed
shift_freed_leak(self) == {}

\* the nodes shift frees
shift_freed(self) ==
  IF head[self] = NULL THEN {} ELSE {head[self]}

\* a slip: head is cleared, the successor never loaded
shift_head_clears(self) == [head EXCEPT ![self] = NULL]

\* a slip: head is left on the freed node
shift_head_stays(self) == head

\* head after shift
shift_head(self) ==
  IF head[self] = NULL THEN head
  ELSE [head EXCEPT ![self] = mem[head[self]].next]

\* rb_linked_list_shift
rb_linked_list_shift(self) ==
  /\ allocated' = allocated \ shift_freed(self)
  /\ head' = shift_head(self)
  /\ log' = [log EXCEPT ![self] =
               Append(@, LogEntry("shift", 0, shift_result(self), head[self]))]
  /\ UNCHANGED <<mem, owner, listState>>

\* rb_inspect of a stored VALUE
rb_inspect(v) ==
  CASE v = Qnil -> "nil"
    [] v = Qfalse -> "false"
    [] OTHER -> "#<Object>"

\* inspect's loop: the pieces appended to str
RECURSIVE inspect_loop(_, _, _, _)
inspect_loop(m, node, i, fuel) ==
  IF node = NULL \/ fuel = 0 THEN <<>>
  ELSE (IF i > 0 THEN <<", ">> ELSE <<>>) \o <<rb_inspect(m[node].value)>>
       \o inspect_loop(m, m[node].next, i + 1, fuel - 1)

\* a slip: the traversal moves linked_list->head itself along the chain
rb_linked_list_inspect_moves_head(self) ==
  /\ last' = [NoCall EXCEPT !.op = "inspect", !.self = self,
                            !.out = <<"#<", "LinkedList", " {">>
                                    \o inspect_loop(mem, head[self], 0, Fuel)
                                    \o <<"}>">>,
                            !.visited = Walk(mem, head[self], Fuel)]
  /\ head' = [head EXCEPT ![self] = NULL]
  /\ UNCHANGED <<mem, allocated, owner, listState, log>>

\* rb_linked_list_inspect
rb_linked_list_inspect(self) ==
  /\ last' = [NoCall EXCEPT !.op = "inspect", !.self = self,
                            !.out = <<"#<", "LinkedList", " {">>
                                    \o inspect_loop(mem, head[self], 0, Fuel)
                                    \o <<"}>">>,
                            !.visited = Walk(mem, head[self], Fuel)]
  /\ UNCHANGED <<mem, allocated, owner, head, listState, log>>

(* ---------------------------- calls ------------------------------------ *)
\* the live lists a VALUE denotes: the receiver of a method call on it
Receiver(v) == {l \in Lists : listState[l] = "live" /\ SelfOf(l) = v}

\* list.append(value); chained: the receiver is what the last call returned
CallAppend(l, value, chained) ==
  /\ listState[l] = "live"
  /\ Work < MaxWork
  /\ \E a \in Addr : rb_linked_list_append(l, value, a)
  /\ last' = [NoCall EXCEPT !.op = "append", !.self = l, !.arg = value,
                            !.ret = append_result(l, value), !.chained = chained]

CallPrepend(l, value, chained) ==
  /\ listState[l] = "live"
  /\ Work < MaxWork
  /\ \E a \in Addr : rb_linked_list_prepend(l, value, a)
  /\ last' = [NoCall EXCEPT !.op = "prepend", !.self = l, !.arg = value,
                            !.ret = prepend_result(l, value), !.chained = chained]

CallShift(l) ==
  /\ listState[l] = "live"
  /\ Work < MaxWork
  /\ rb_linked_list_shift(l)
  /\ last' = [NoCall EXCEPT !.op = "shift", !.self = l, !.ret = shift_result(l)]

CallInspect(l) ==
  /\ listState[l] = "live"
  /\ rb_linked_list_inspect(l)

\* the last call was an append or a prepend, whose result can take a call
Chainable == last.op \in {"append", "prepend"}

\* the process runs; a whole call leaves no call in progress behind it
Running == proc = "running"
Whole == UNCHANGED <<frame, proc>>

\* the collector destroys only a list no call in progress is working on
Unreferenced(l) == frame.self # l

Allocate == Running /\ Whole /\ \E l \in Lists : rb_linked_list_allocate(l)
DoAppend == Running /\ Whole /\ \E l \in Lists, v \in Values : CallAppend(l, v, FALSE)
DoPrepend == Running /\ Whole /\ \E l \in Lists, v \in Values : CallPrepend(l, v, FALSE)
ChainAppend ==
  Running /\ Whole /\ Chainable
    /\ \E l \in Receiver(last.ret), v \in Values : CallAppend(l, v, TRUE)
ChainPrepend ==
  Running /\ Whole /\ Chainable
    /\ \E l \in Receiver(last.ret), v \in Values : CallPrepend(l, v, TRUE)
DoShift == Running /\ Whole /\ \E l \in Lists : CallShift(l)
DoInspect == Running /\ Whole /\ \E l \in Lists : CallInspect(l)
Mark == Running /\ Whole /\ \E l \in Lists : linked_list_mark(l)
Free == Running /\ Whole /\ \E l \in Lists : Unreferenced(l) /\ linked_list_free(l)

Next ==
  \/ Allocate
  \/ DoAppend
  \/ DoPrepend
  \/ ChainAppend
  \/ ChainPrepend
  \/ DoShift
  \/ DoInspect
  \/ Mark
  \/ Free

Spec == Init /\ [][Next]_vars

(* ---------------------------- inspect, call by call -------------------- *)
\* rb_inspect(node->value) on line 115 calls the inspect method of the stored
\* value.  For nil and false that is the interpreter's own; for a heap object
\* it is Ruby code the list does not control, which may call any method of
\* any list, and during which the collector may run, before it returns.
\* Here inspect is followed from one such call to the next.
IsSpecialConst(v) == v \in {Qfalse, Qnil}

\* the finished call: str with "}>" appended
InspectDone(l, out) ==
  [NoCall EXCEPT !.op = "inspect", !.self = l, !.out = out \o <<"}>">>]

\* the loop of lines 114-120 from node on, as far as the next rb_inspect on a
\* heap object (pc "rb_inspect", at that node) or the end of the chain (pc
\* "done"); freed: a node it read had been freed
RECURSIVE inspect_run(_, _, _, _)
inspect_run(node, i, out, fuel) ==
  IF node = NULL
  THEN [pc |-> "done", node |-> NULL, i |-> i, out |-> out, freed |-> FALSE]
  ELSE IF fuel = 0
  THEN [pc |-> "lost", node |-> node, i |-> i, out |-> out, freed |-> FALSE]
  ELSE IF ~IsSpecialConst(mem[node].value)
  THEN [pc |-> "rb_inspect", node |-> node, i |-> i, out |-> out,
        freed |-> node \notin allocated]
  ELSE LET r == inspect_run(mem[node].next, i + 1,
                            out \o (IF i > 0 THEN <<", ">> ELSE <<>>)
                                \o <<rb_inspect(mem[node].value)>>,
                            fuel - 1)
       IN [r EXCEPT !.freed = r.freed \/ node \notin allocated]

\* where a run r leaves inspect of l: finished, or inside rb_inspect
InspectGoes(l, r) ==
  IF r.pc = "done"
  THEN /\ last' = InspectDone(l, r.out)
       /\ frame' = NoFrame
  ELSE /\ last' = last
       /\ frame' = [NoFrame EXCEPT !.pc = r.pc, !.op = "inspect", !.self = l,
                                   !.node = r.node, !.i = r.i,
                                   !.s = rb_inspect(mem[r.node].value),
                                   !.out = r.out]

\* lines 105-115: up to the first rb_inspect on a heap object, or to the end
InspectBegin ==
  /\ Running /\ frame.pc = "idle"
  /\ \E l \in Lists :
       /\ listState[l] = "live"
       /\ InspectGoes(l, inspect_run(head[l], 0, <<"#<", "LinkedList", " {">>, Fuel))
  /\ UNCHANGED <<mem, allocated, owner, head, listState, log, proc>>

\* rb_inspect has returned: lines 116-119, reading node->next of the node
\* the traversal holds, and the loop from there on.  Reading a freed node is
\* undefined: the read yields the bytes the block holds now, or the process
\* dies.
InspectResume ==
  /\ Running /\ frame.pc = "rb_inspect"
  /\ LET r == inspect_run(mem[frame.node].next, frame.i + 1,
                          frame.out \o (IF frame.i > 0 THEN <<", ">> ELSE <<>>)
                                    \o <<frame.s>>,
                          Fuel)
     IN \/ /\ InspectGoes(frame.self, r)
           /\ proc' = proc
        \/ /\ frame.node \notin allocated \/ r.freed
           /\ proc' = "aborted"
           /\ UNCHANGED <<last, frame>>
  /\ UNCHANGED <<mem, allocated, owner, head, listState, log>>

NextReentrant ==
  \/ Allocate
  \/ DoAppend
  \/ DoPrepend
  \/ DoShift
  \/ Mark
  \/ Free
  \/ InspectBegin
  \/ InspectResume

SpecReentrant == Init /\ [][NextReentrant]_vars

(* ---------------------------- malloc fails ----------------------------- *)
\* malloc returns NULL and new_c_node stores through it on line 55 without a
\* test.  The store is undefined: it traps and the process dies inside the
\* call, or it lands outside the nodes and the call goes on with a NULL node.
\* With a NULL node append stores NULL where NULL already is (head of an empty
\* list on line 71, the tail's next on line 76); prepend stores NULL into
\* head on line 87.

\* head after prepend has gone on with a NULL node
prepend_head_null(self) == [head EXCEPT ![self] = NULL]

\* the call dies in new_c_node
DiesInCall(l, op, value) ==
  /\ proc' = "aborted"
  /\ last' = [NoCall EXCEPT !.op = op, !.self = l, !.arg = value]
  /\ UNCHANGED <<mem, allocated, owner, head, listState, log, frame>>

AppendOom ==
  /\ Running /\ frame.pc = "idle"
  /\ \E l \in Lists, value \in Values :
       /\ listState[l] = "live"
       /\ Work < MaxWork
       /\ \/ DiesInCall(l, "append", value)
          \/ /\ log' = [log EXCEPT ![l] =
                          Append(@, LogEntry("append", value, append_result(l, value), NULL))]
             /\ last' = [NoCall EXCEPT !.op = "append", !.self = l, !.arg = value,
                                       !.ret = append_result(l, value)]
             /\ UNCHANGED <<mem, allocated, owner, head, listState, frame, proc>>

PrependOom ==
  /\ Running /\ frame.pc = "idle"
  /\ \E l \in Lists, value \in Values :
       /\ listState[l] = "live"
       /\ Work < MaxWork
       /\ \/ DiesInCall(l, "prepend", value)
          \/ /\ head' = prepend_head_null(l)
             /\ log' = [log EXCEPT ![l] =
                          Append(@, LogEntry("prepend", value, prepend_result(l, value), NULL))]
             /\ last' = [NoCall EXCEPT !.op = "prepend", !.self = l, !.arg = value,
                                       !.ret = prepend_result(l, value)]
             /\ UNCHANGED <<mem, allocated, owner, listState, frame, proc>>

NextOom ==
  \/ Allocate
  \/ DoAppend
  \/ DoPrepend
  \/ DoShift
  \/ DoInspect
  \/ Mark
  \/ Free
  \/ AppendOom
  \/ PrependOom

SpecOom == Init /\ [][NextOom]_vars

(* ---------------------------- insertion, statement by statement -------- *)
\* append and prepend followed one store at a time.  Nothing else runs in
\* between: malloc is the C library's and calls neither Ruby code nor the
\* collector.
\*   malloc     line 54   node = malloc(...)
\*   next_null  line 55   node->next = NULL
\*   value      line 61   node->value = value
\*   next_head  line 86   new_node->next = linked_list->head
\*   link       line 71 / 76 / 87   the node is stored into head or tail->next

\* a slip: the node is stored into the list before its value is set
AppendOrderLinkEarly == <<"malloc", "next_null", "link", "value">>

\* the stores of append, in program order
AppendOrder == <<"malloc", "next_null", "value", "link">>

\* the stores of prepend, in program order
PrependOrder == <<"malloc", "next_null", "value", "next_head", "link">>

OrderOf(op) == IF op = "append" THEN AppendOrder ELSE PrependOrder

Idle == frame.pc = "idle"

\* lines 65-68 / 81-83: the call is entered
InsertBegin ==
  /\ Running /\ Idle
  /\ \E l \in Lists, value \in Values, op \in {"append", "prepend"} :
       /\ listState[l] = "live"
       /\ Work < MaxWork
       /\ \E a \in Addr : MallocMay(a)
       /\ frame' = [NoFrame EXCEPT !.pc = "insert", !.op = op, !.self = l,
                                   !.value = value, !.k = 1]
  /\ UNCHANGED <<mem, allocated, owner, head, listState, log, last, proc>>

\* what one statement of the call in progress stores
InsertStore(stmt, a) ==
  CASE stmt = "malloc" ->
         /\ MallocMay(a)
         /\ allocated' = allocated \cup {a}
         /\ owner' = [owner EXCEPT ![a] = frame.self]
         /\ mem' = Malloc(mem, a)
         /\ head' = head
    [] stmt = "next_null" ->
         /\ a = frame.node
         /\ mem' = [mem EXCEPT ![a].next = NULL]
         /\ UNCHANGED <<allocated, owner, head>>
    [] stmt = "value" ->
         /\ a = frame.node
         /\ mem' = [mem EXCEPT ![a].value = frame.value]
         /\ UNCHANGED <<allocated, owner, head>>
    [] stmt = "next_head" ->
         /\ a = frame.node
         /\ mem' = [mem EXCEPT ![a].next = head[frame.self]]
         /\ UNCHANGED <<allocated, owner, head>>
    [] OTHER ->
         /\ a = frame.node
         /\ IF frame.op = "append" /\ head[frame.self] # NULL
            THEN /\ mem' = [mem EXCEPT ![TailOf(mem, head[frame.self], Fuel)].next = a]
                 /\ head' = head
            ELSE /\ head' = [head EXCEPT ![frame.self] = a]
                 /\ mem' = mem
         /\ UNCHANGED <<allocated, owner>>

\* the next statement of the call in progress; after the last one the call
\* returns self
InsertStep ==
  /\ Running /\ frame.pc = "insert"
  /\ \E a \in Addr :
       /\ InsertStore(OrderOf(frame.op)[frame.k], a)
       /\ IF frame.k < Len(OrderOf(frame.op))
          THEN /\ frame' = [frame EXCEPT !.k = frame.k + 1, !.node = a]
               /\ UNCHANGED <<log, last>>
          ELSE /\ frame' = NoFrame
               /\ log' = [log EXCEPT ![frame.self] =
                            Append(@, LogEntry(frame.op, frame.value, SelfOf(frame.self), a))]
               /\ last' = [NoCall EXCEPT !.op = frame.op, !.self = frame.self,
                                         !.arg = frame.value, !.ret = SelfOf(frame.self)]
  /\ UNCHANGED <<listState, proc>>

NextInsert ==
  \/ Idle /\ Allocate
  \/ Idle /\ DoShift
  \/ Idle /\ DoInspect
  \/ Idle /\ Mark
  \/ Idle /\ Free
  \/ InsertBegin
  \/ InsertStep

SpecInsert == Init /\ [][NextInsert]_vars

(* ---------------------------- helpers of the properties ---------------- *)
Range(q) == {q[i] : i \in 1..Len(q)}

\* the nodes reachable from the head of l, head first
Chain(l) == Walk(mem, head[l], Fuel)

\* the values held by the nodes of q, in order
RECURSIVE ValuesOf(_, _)
ValuesOf(m, q) ==
  IF q = <<>> THEN <<>> ELSE <<m[Head(q)].value>> \o ValuesOf(m, Tail(q))

\* the values held by the nodes reachable from the head of l, head first
Held(l) == ValuesOf(mem, Chain(l))

\* the nodes malloc'ed by the methods of l and not freed
LiveNodes(l) == {a \in allocated : owner[a] = l}

\* every call of q from position i to position j is an op
AllOp(q, i, j, op) == \A k \in i..j : q[k].op = op

Count(q, Test(_)) == Cardinality({i \in 1..Len(q) : Test(q[i])})
IsInsert(e) == e.op \in {"append", "prepend"}
IsShiftOut(e) == e.op = "shift" /\ e.node # NULL
IsShiftEmpty(e) == e.op = "shift" /\ e.node = NULL

(* ---------------------------- C1 --------------------------------------- *)
\* C1: on a list whose calls since allocation are n appends of v1..vn
\* followed by shifts only, the i-th shift returned vi for i <= n and nil
\* (the none sentinel) for every i > n.
C1_AppendThenShiftIsFifo ==
  \A l \in Lists : \A n \in 0..Len(log[l]) :
    (AllOp(log[l], 1, n, "append") /\ AllOp(log[l], n + 1, Len(log[l]), "shift"))
      => \A i \in 1..(Len(log[l]) - n) :
           log[l][n + i].res = IF i <= n THEN log[l][i].arg ELSE Qnil

\* two different values appended, then both shifted out
C1_Witness ==
  \E l \in Lists :
    /\ Len(log[l]) = 4
    /\ AllOp(log[l], 1, 2, "append") /\ AllOp(log[l], 3, 4, "shift")
    /\ log[l][1].arg # log[l][2].arg
    /\ log[l][3].res = log[l][1].arg

\* a shift past the end of what was appended
C1_WitnessNone ==
  \E l \in Lists :
    /\ Len(log[l]) = 3
    /\ AllOp(log[l], 1, 1, "append") /\ AllOp(log[l], 2, 3, "shift")
    /\ log[l][1].arg # Qnil
    /\ log[l][3].res = Qnil

(* ---------------------------- C2 --------------------------------------- *)
\* C2: on a list whose calls since allocation are n prepends of v1..vn
\* followed by shifts only, the i-th shift (i <= n) returned v(n+1-i): the
\* values come out in reverse insertion order.
C2_PrependThenShiftIsLifo ==
  \A l \in Lists : \A n \in 0..Len(log[l]) :
    (AllOp(log[l], 1, n, "prepend") /\ AllOp(log[l], n + 1, Len(log[l]), "shift"))
      => \A i \in 1..(Len(log[l]) - n) :
           i <= n => log[l][n + i].res = log[l][n + 1 - i].arg

\* two different values prepended, then both shifted out
C2_Witness ==
  \E l \in Lists :
    /\ Len(log[l]) = 4
    /\ AllOp(log[l], 1, 2, "prepend") /\ AllOp(log[l], 3, 4, "shift")
    /\ log[l][1].arg # log[l][2].arg
    /\ log[l][3].res = log[l][2].arg
    /\ log[l][4].res = log[l][1].arg

(* ---------------------------- C3 --------------------------------------- *)
\* C3: a shift on a list whose head is NULL returns nil, frees no node,
\* writes no node and leaves head NULL; the list can take it again.
C3_ShiftOnEmpty ==
  [][\A l \in Lists :
       (last'.op = "shift" /\ last'.self = l /\ head[l] = NULL)
         => /\ last'.ret = Qnil
            /\ allocated' = allocated
            /\ mem' = mem
            /\ head'[l] = NULL
            /\ listState'[l] = "live"]_vars

\* a list emptied by a shift and then shifted twice more
C3_Witness ==
  \E l \in Lists :
    /\ last.op = "shift" /\ last.self = l
    /\ Len(log[l]) = 4
    /\ IsInsert(log[l][1]) /\ IsShiftOut(log[l][2])
    /\ IsShiftEmpty(log[l][3]) /\ IsShiftEmpty(log[l][4])
    /\ head[l] = NULL

(* ---------------------------- C4 --------------------------------------- *)
\* C4: for every live list, the traversal from head reaches NULL, visits no
\* node twice, visits exactly the nodes malloc'ed for the list and not yet
\* freed, and visits as many nodes as there were insertions minus shifts
\* that removed a node.
C4_ChainIsTheLiveNodes ==
  \A l \in Lists : listState[l] = "live" =>
    /\ Terminates(mem, head[l], Fuel)
    /\ Cardinality(Range(Chain(l))) = Len(Chain(l))
    /\ Range(Chain(l)) = LiveNodes(l)
    /\ Len(Chain(l)) = Count(log[l], IsInsert) - Count(log[l], IsShiftOut)

\* two nodes left after an append, a prepend and a shift that removed a node
C4_Witness ==
  \E l \in Lists :
    /\ listState[l] = "live"
    /\ Len(Chain(l)) = 2
    /\ \E i \in 1..Len(log[l]) : log[l][i].op = "append"
    /\ \E i \in 1..Len(log[l]) : log[l][i].op = "prepend"
    /\ \E i \in 1..Len(log[l]) : IsShiftOut(log[l][i])

(* ---------------------------- C5 --------------------------------------- *)
\* no head and no next link of a reachable node points to a node that is
\* freed or that belongs to another list
NoDangling ==
  \A l \in Lists : listState[l] = "live" =>
    /\ head[l] = NULL \/ head[l] \in LiveNodes(l)
    /\ \A i \in 1..Len(Chain(l)) :
         LET n == mem[Chain(l)[i]].next IN n = NULL \/ n \in LiveNodes(l)

\* C5: a shift on a list with a head node returns that node's value, frees
\* that node in the same step and nothing else, and sets head to the node's
\* successor; and in every state no head and no next link of a reachable node
\* points to a freed node.
C5_ShiftFreesHead ==
  /\ []NoDangling
  /\ [][\A l \in Lists :
          (last'.op = "shift" /\ last'.self = l /\ head[l] # NULL)
            => /\ last'.ret = mem[head[l]].value
               /\ allocated' = allocated \ {head[l]}
               /\ head[l] \in allocated
               /\ head'[l] = mem[head[l]].next]_vars

\* a shift that removed the head of a list of two nodes
C5_Witness ==
  \E l \in Lists :
    /\ last.op = "shift" /\ last.self = l
    /\ IsShiftOut(log[l][Len(log[l])])
    /\ head[l] # NULL
    /\ log[l][Len(log[l])].node \notin allocated

(* ---------------------------- C6 --------------------------------------- *)
\* C6: once the collector has destroyed a list, no node malloc'ed for that
\* list is still allocated.
C6_DestroyFreesNodes ==
  \A l \in Lists : listState[l] = "freed" => LiveNodes(l) = {}

(* ---------------------------- C7 --------------------------------------- *)
NotFalse(v) == v # Qfalse

\* C7 as stated: mark passes to rb_gc_mark the value of every reachable
\* node, one call per node, head first.
C7_MarkReportsEveryNode ==
  \A l \in Lists : (last.op = "mark" /\ last.self = l) => last.reported = Held(l)

\* C7, amended: mark dereferences exactly the nodes reachable from head, once
\* each and head first, all of them allocated; it passes to rb_gc_mark the
\* values of those nodes that are not the zero word (false), in that order,
\* so at most one call per node.
C7_MarkReportsNonZero ==
  \A l \in Lists : (last.op = "mark" /\ last.self = l) =>
    /\ last.visited = Chain(l)
    /\ Cardinality(Range(last.visited)) = Len(last.visited)
    /\ Range(last.visited) \subseteq allocated
    /\ last.reported = SelectSeq(Held(l), NotFalse)

\* mark on a list of two nodes or more, one of them freed before by a shift,
\* that holds false ahead of a value that is not false
C7_Witness ==
  \E l \in Lists :
    /\ last.op = "mark" /\ last.self = l
    /\ Len(Chain(l)) >= 2
    /\ Held(l)[1] = Qfalse /\ Held(l)[2] # Qfalse
    /\ \E i \in 1..Len(log[l]) : IsShiftOut(log[l][i])
    /\ Len(last.reported) = Len(Chain(l)) - 1

(* ---------------------------- C8 --------------------------------------- *)
\* C8 as stated: mark never passes nil, the sentinel shift returns on an
\* empty list, to rb_gc_mark, and passes every stored value that is not nil.
C8_MarkSkipsNil ==
  \A l \in Lists : (last.op = "mark" /\ last.self = l) =>
    /\ Qnil \notin Range(last.reported)
    /\ \A i \in 1..Len(Held(l)) :
         Held(l)[i] # Qnil => Held(l)[i] \in Range(last.reported)

\* C8, amended: the value mark never passes to rb_gc_mark is the zero word
\* (false), wherever its node sits; it passes every stored value that is not
\* the zero word, nil included.
C8_MarkSkipsZero ==
  \A l \in Lists : (last.op = "mark" /\ last.self = l) =>
    /\ Qfalse \notin Range(last.reported)
    /\ \A i \in 1..Len(Held(l)) :
         Held(l)[i] # Qfalse => Held(l)[i] \in Range(last.reported)

\* mark on a list that holds nil and false: nil is passed on, false is not
C8_Witness ==
  \E l \in Lists :
    /\ last.op = "mark" /\ last.self = l
    /\ Qnil \in Range(Held(l)) /\ Qfalse \in Range(Held(l))
    /\ Qnil \in Range(last.reported)

(* ---------------------------- C9 --------------------------------------- *)
\* what a call of op on l with value v does to the list, whatever the
\* receiver expression was
DirectCall(l, op, v) ==
  \E a \in Addr :
    IF op = "append" THEN rb_linked_list_append(l, v, a)
    ELSE rb_linked_list_prepend(l, v, a)

\* C9: append and prepend return the list they were called on; a call
\* chained on their result is a call on that same list and changes the
\* state as the same call made on the list directly.
C9_ChainingIsSequential ==
  /\ [](last.op \in {"append", "prepend"} => last.ret = SelfOf(last.self))
  /\ [][(last'.op \in {"append", "prepend"} /\ last'.chained)
          => /\ last'.self = last.self
             /\ DirectCall(last.self, last'.op, last'.arg)]_vars

\* a prepend chained on an append chained on an append
C9_Witness ==
  \E l \in Lists :
    /\ last.op = "prepend" /\ last.chained /\ last.self = l
    /\ Len(log[l]) = 3
    /\ log[l][1].op = "append" /\ log[l][2].op = "append"
    /\ Len(Chain(l)) = 3
    /\ Held(l) = <<log[l][3].arg, log[l][1].arg, log[l][2].arg>>

(* ---------------------------- C10 -------------------------------------- *)
\* the pieces of an inspect result between " {" and "}>"
Body(out) == SubSeq(out, 4, Len(out) - 1)

C10_WitnessEmpty ==
  \E l \in Lists :
    /\ last.op = "inspect" /\ last.self = l
    /\ head[l] = NULL
    /\ last.out = <<"#<", "LinkedList", " {", "}>">>

(* ---------------------------- C12 -------------------------------------- *)
\* the two states of a list
IsEmpty(h, l) == h[l] = NULL

\* C12: a list is Empty when allocated; an append or a prepend on it leaves
\* it NonEmpty; a shift on it leaves it Empty if it was Empty or held exactly
\* one node, NonEmpty otherwise; no other step (a call on another list, an
\* inspect, a mark) moves it between Empty and NonEmpty.
C12_EmptyNonEmptyMachine ==
  [][\A l \in Lists :
       /\ (last'.op = "allocate" /\ last'.self = l) => IsEmpty(head', l)
       /\ (listState[l] = "live" /\ listState'[l] = "live") =>
            IF last'.self = l /\ last'.op \in {"append", "prepend"}
              THEN ~IsEmpty(head', l)
            ELSE IF last'.self = l /\ last'.op = "shift"
              THEN IsEmpty(head', l) <=> (IsEmpty(head, l) \/ Len(Chain(l)) = 1)
            ELSE IsEmpty(head', l) <=> IsEmpty(head, l)]_vars

\* a list that went Empty, NonEmpty, NonEmpty, NonEmpty, Empty
C12_Witness ==
  \E l \in Lists :
    /\ last.op = "shift" /\ last.self = l
    /\ Len(log[l]) = 4
    /\ IsInsert(log[l][1]) /\ IsInsert(log[l][2])
    /\ IsShiftOut(log[l][3]) /\ IsShiftOut(log[l][4])
    /\ IsEmpty(head, l)

(* ---------------------------- C15 -------------------------------------- *)
\* the values held by the chain of l after the step
HeldAfter(l) == ValuesOf(mem', Walk(mem', head'[l], Fuel))

\* the step allocates exactly one node, at n
AllocatesOnly(n) == n \notin allocated /\ allocated' = allocated \cup {n}

\* C15: an append on a non-empty list writes, of the nodes that existed, only
\* the next link of the tail, which becomes the new node, and leaves every
\* head as it was; an append on an empty list and a prepend write no node
\* that existed and change only the head of their list, which becomes the new
\* node, whose successor is the old head (NULL on an empty list); the values
\* already stored keep their order.
C15_InsertFrame ==
  [][\A l \in Lists : (last'.self = l /\ last'.op \in {"append", "prepend"}) =>
       IF last'.op = "append" /\ head[l] # NULL
       THEN LET t == Chain(l)[Len(Chain(l))] IN
            /\ head' = head
            /\ AllocatesOnly(mem'[t].next)
            /\ mem'[t].value = mem[t].value
            /\ \A b \in allocated \ {t} : mem'[b] = mem[b]
            /\ HeldAfter(l) = Held(l) \o <<last'.arg>>
       ELSE /\ AllocatesOnly(head'[l])
            /\ \A k \in Lists \ {l} : head'[k] = head[k]
            /\ \A b \in allocated : mem'[b] = mem[b]
            /\ mem'[head'[l]].next = head[l]
            /\ HeldAfter(l) = <<last'.arg>> \o Held(l)]_vars

\* an append on a list of two nodes, the first of them prepended
C15_Witness ==
  \E l \in Lists :
    /\ last.op = "append" /\ last.self = l
    /\ Len(log[l]) = 3
    /\ log[l][1].op = "append" /\ log[l][2].op = "prepend"
    /\ Len(Chain(l)) = 3
    /\ Held(l) = <<log[l][2].arg, log[l][1].arg, log[l][3].arg>>

(* ---------------------------- C16 -------------------------------------- *)
\* the abstract sequence after the first k calls of q: append adds at the
\* end, prepend at the front, shift drops the first element if there is one
RECURSIVE AbsSeq(_, _)
AbsSeq(q, k) ==
  IF k = 0 THEN <<>>
  ELSE LET s == AbsSeq(q, k - 1)
           e == q[k]
       IN CASE e.op = "append" -> Append(s, e.arg)
            [] e.op = "prepend" -> <<e.arg>> \o s
            [] OTHER -> IF s = <<>> THEN <<>> ELSE Tail(s)

\* C16: for any interleaving of append, prepend and shift on a list, the
\* values read from head to tail are the abstract sequence of its calls, and
\* every shift returned the first element the abstract sequence had before
\* it, or nil if it was empty.
C16_RefinesSequence ==
  \A l \in Lists :
    /\ listState[l] = "live" => Held(l) = AbsSeq(log[l], Len(log[l]))
    /\ \A k \in 1..Len(log[l]) :
         log[l][k].op = "shift" =>
           log[l][k].res = IF AbsSeq(log[l], k - 1) = <<>> THEN Qnil
                           ELSE Head(AbsSeq(log[l], k - 1))

\* append, prepend, a shift that returns the prepended value, and a prepend
\* after the shift
C16_Witness ==
  \E l \in Lists :
    /\ listState[l] = "live"
    /\ Len(log[l]) = 4
    /\ log[l][1].op = "append" /\ log[l][2].op = "prepend"
    /\ log[l][3].op = "shift" /\ log[l][4].op = "prepend"
    /\ log[l][1].arg # log[l][2].arg
    /\ log[l][3].res = log[l][2].arg
    /\ Held(l) = <<log[l][4].arg, log[l][1].arg>>

(* ---------------------------- C17 -------------------------------------- *)
\* C17: a mark step, taken between any two calls, reaches the end of the
\* chain, dereferences each reachable node once, and changes no head, no
\* node, no allocation and no list.
C17_MarkObservesOnly ==
  [][\A l \in Lists : (last'.op = "mark" /\ last'.self = l) =>
       /\ Terminates(mem, head[l], Fuel)
       /\ last'.visited = Chain(l)
       /\ Cardinality(Range(last'.visited)) = Len(last'.visited)
       /\ head' = head
       /\ mem' = mem
       /\ allocated' = allocated
       /\ owner' = owner
       /\ listState' = listState]_vars

\* mark on a list of two nodes, between calls, after a shift has freed a node
C17_Witness ==
  \E l \in Lists :
    /\ last.op = "mark" /\ last.self = l
    /\ Len(last.visited) = 2
    /\ Len(log[l]) = 4
    /\ \E i \in 1..Len(log[l]) : IsShiftOut(log[l][i])

(* ---------------------------- C14 -------------------------------------- *)
\* the pointers to node a: heads of live lists and next links of allocated nodes
HeadsOn(a) == {l \in Lists : listState[l] = "live" /\ head[l] = a}
LinksOn(a) == {b \in allocated : mem[b].next = a}

\* the step leaves list k alone: its head, and the bytes of its nodes
Untouched(k) ==
  /\ head'[k] = head[k]
  /\ LiveNodes(k) \subseteq allocated'
  /\ \A b \in LiveNodes(k) : mem'[b] = mem[b] /\ owner'[b] = k

\* a call on list l leaves every other list alone
OthersUntouched ==
  [][\A l \in Lists :
       (last'.self = l /\ last'.op \in {"append", "prepend", "shift", "inspect", "mark"})
         => \A k \in Lists \ {l} : listState[k] = "live" => Untouched(k)]_vars

\* C14: in every state each allocated node is pointed to by exactly one
\* owner, the head of one live list or the next link of one allocated node;
\* no node is reachable from two lists; and a call on one list leaves the
\* head, the nodes and the links of every other list unchanged.
C14_LinearOwnership ==
  /\ [](\A a \in allocated : Cardinality(HeadsOn(a)) + Cardinality(LinksOn(a)) = 1)
  /\ [](\A l, k \in Lists :
          (l # k /\ listState[l] = "live" /\ listState[k] = "live")
            => Range(Chain(l)) \cap Range(Chain(k)) = {})
  /\ OthersUntouched

\* the same for the nodes of the lists the collector has not destroyed
C14_LinearAmongLiveLists ==
  /\ [](\A l \in Lists : listState[l] = "live" =>
          \A a \in LiveNodes(l) : Cardinality(HeadsOn(a)) + Cardinality(LinksOn(a)) = 1)
  /\ [](\A l, k \in Lists :
          (l # k /\ listState[l] = "live" /\ listState[k] = "live")
            => Range(Chain(l)) \cap Range(Chain(k)) = {})
  /\ OthersUntouched

\* two live lists, each holding a node, the last call an insertion on one
C14_TwoListsReached ==
  \E l, k \in Lists :
    /\ l # k /\ listState[l] = "live" /\ listState[k] = "live"
    /\ Len(Chain(l)) >= 1 /\ Len(Chain(k)) >= 1
    /\ last.op \in {"append", "prepend"} /\ last.self = l

(* ---------------------------- C11 -------------------------------------- *)
\* C11: while an inspect is in progress on a list no append, prepend or
\* shift runs on that list, and the node the traversal holds stays an
\* allocated node of that list.
C11_RunsToCompletion ==
  /\ [](frame.pc = "rb_inspect" => frame.node \in LiveNodes(frame.self))
  /\ [][frame.pc = "rb_inspect" => log'[frame.self] = log[frame.self]]_vars

\* the node an inspect in progress holds has been freed by a shift
C11_HeldNodeFreed ==
  /\ frame.pc = "rb_inspect"
  /\ frame.node \notin allocated
  /\ last.op = "shift" /\ last.self = frame.self

\* the process has died on a read of a freed node
C11_DiedInInspect == proc = "aborted" /\ frame.pc = "rb_inspect"

\* the traversal never runs out of fuel: it is cut nowhere
C11_NeverLost == frame.pc # "lost"

(* ---------------------------- C13 -------------------------------------- *)
\* the step links one new, fully built node holding the value into l
LinksBuiltNode(l) ==
  /\ proc' = "running"
  /\ \E a \in Addr :
       /\ AllocatesOnly(a)
       /\ mem'[a].value = last'.arg /\ mem'[a].next # Uninit
       /\ a \in Range(Walk(mem', head'[l], Fuel))
  /\ HeldAfter(l) = IF last'.op = "append" THEN Held(l) \o <<last'.arg>>
                    ELSE <<last'.arg>> \o Held(l)

\* the step ends the process and leaves every head and every node as it was
AbortsUntouched ==
  /\ proc' = "aborted"
  /\ head' = head
  /\ allocated' = allocated
  /\ \A b \in allocated : mem'[b] = mem[b]

\* C13: every append and every prepend, whether malloc succeeds or fails,
\* either links a fully built node or aborts the process with every head and
\* every existing next link as before the call.
C13_InsertAllOrAbort ==
  [][\A l \in Lists :
       (last'.self = l /\ last'.op \in {"append", "prepend"})
         => LinksBuiltNode(l) \/ AbortsUntouched]_vars

\* a prepend whose malloc failed has returned and the list has lost its nodes
C13_ChainDropped ==
  \E l \in Lists :
    /\ last.op = "prepend" /\ last.self = l /\ proc = "running"
    /\ head[l] = NULL
    /\ LiveNodes(l) # {}

\* a call whose malloc failed has died with the list untouched
C13_DiedInCall ==
  \E l \in Lists :
    /\ proc = "aborted" /\ last.self = l /\ last.op \in {"append", "prepend"}
    /\ head[l] # NULL

(* ---------------------------- C18 -------------------------------------- *)
\* C18: in every state, between the stores of an insertion too, each node
\* reachable from the head of a live list is allocated and has had its next
\* link and its value written; the node an insertion is building is not
\* reachable before its last store; so mark and shift hand on no unwritten
\* value.
C18_ReachableIsInitialised ==
  /\ \A l \in Lists : listState[l] = "live" =>
       \A a \in Range(Chain(l)) :
         a \in allocated /\ mem[a].next # Uninit /\ mem[a].value # Uninit
  /\ frame.pc = "insert" => frame.node \notin Range(Chain(frame.self))
  /\ last.op = "mark" => Uninit \notin Range(last.reported)
  /\ last.op = "shift" => last.ret # Uninit

\* an append on a list that holds a node: the new node is built, its value
\* set, and not yet linked
C18_Witness ==
  /\ frame.pc = "insert" /\ frame.op = "append"
  /\ OrderOf(frame.op)[frame.k] = "link"
  /\ frame.node \in allocated
  /\ mem[frame.node].value = frame.value /\ mem[frame.node].next = NULL
  /\ Len(Chain(frame.self)) >= 1
  /\ frame.node \notin Range(Chain(frame.self))

\* a node is allocated and nothing of it is written yet
C18_UnwrittenNode ==
  /\ frame.pc = "insert"
  /\ frame.node \in allocated
  /\ mem[frame.node].value = Uninit /\ mem[frame.node].next = Uninit

====
